---- MODULE Spec2Model ----
(***************************************************************************)
(* star-randsrv: epoch and key state of the STAR randomness service and    *)
(* its management (src/state.rs), together with the request handlers that  *)
(* read the state cell.                                                    *)
(*                                                                         *)
(* Time is counted in clock ticks, TicksPerSec ticks to the second, so     *)
(* that an instant can have a sub-second part and the truncation of the    *)
(* published timestamp to whole seconds is visible.                        *)
(***************************************************************************)
EXTENDS Integers, Sequences, FiniteSets, TLC

(***************************************************************************)
(* Bounds of the model.                                                    *)
(***************************************************************************)
\* clock resolution: ticks per second
TicksPerSec == 2
\* the instant, in ticks, at which the process starts
StartTime == 20
\* the wall clock is followed for Horizon ticks after the start
Horizon == 10
\* crate::MAX_POINTS is scaled down to this many points per request
MaxPointsBound == 2

MaxTime == StartTime + Horizon

\* Option::None of Option<u8> and Option<OffsetDateTime>, and a local not yet set
None == -1

\* Option<String>: None and Some(text)
NoString == <<>>
Some(text) == <<text>>

\* u8::MAX
U8_MAX == 255

(***************************************************************************)
(* Configurations (crate::Config, the fields state.rs reads).  Base times  *)
(* are instants in ticks: none, 5 s and 2.5 s before the start, and one    *)
(* tick after it (a base time in the future).                              *)
(***************************************************************************)
\* <<first_epoch, last_epoch, epoch_seconds>>
Schedules == {<<12, 14, 1>>, <<12, 24, 1>>, <<254, 255, 2>>, <<7, 7, 1>>}
BaseTimes ==
    {None, StartTime - 5 * TicksPerSec, StartTime - (5 * TicksPerSec) \div 2,
     StartTime + 1}

Configs ==
    {[first_epoch |-> r[1], last_epoch |-> r[2], epoch_seconds |-> r[3],
      epoch_base_time |-> b] : r \in Schedules, b \in BaseTimes}

VARIABLES
    cfg,              \* the Config, immutable
    now,              \* wall clock, in ticks
    \* ---- the state cell, Arc<RwLock<OPRFServer>>
    server,           \* OPRFServer.server: [key, active]
    epoch,            \* OPRFServer.epoch
    next_epoch_time,  \* OPRFServer.next_epoch_time: None or whole seconds
    writer,           \* the RwLock is write-locked (by the scheduler)
    readers,          \* number of read guards alive
    \* ---- epoch_loop
    pc,               \* position of the scheduler task
    start_time, base_time, elapsed_epochs, current_epoch,
    next_rotation,
    iter,             \* loop variable of the catch-up loop
    timestamp,        \* formatted next_rotation
    sleep_until,      \* deadline of the pending tokio sleep
    old_epoch,
    \* ---- the request handler task
    hpc, req, tag, done, evals, resp,
    \* ---- history
    hist

cell == <<server, epoch, next_epoch_time>>
lock == <<writer, readers>>
sched == <<pc, start_time, base_time, elapsed_epochs, current_epoch,
           next_rotation, iter, timestamp, sleep_until, old_epoch>>
handler == <<hpc, req, tag, done, evals, resp>>
vars == <<cfg, now, cell, lock, sched, handler, hist>>

(***************************************************************************)
(* The PPOPRF primitive (crate ppoprf), by its contract: a secret key and  *)
(* the set of tags that are still active.  Keys are numbered in the order  *)
(* they are generated; a fresh key differs from every earlier one.         *)
(***************************************************************************)

\* config.first_epoch..=config.last_epoch
epochs(c) == c.first_epoch .. c.last_epoch

\* ppoprf::Server::new(epochs) with the k-th key the process generates
ServerNew(c, k) == [key |-> k, active |-> epochs(c)]

\* ppoprf::Server::puncture succeeds on a tag that is still active
PunctureOk(srv, md) == md \in srv.active

\* ppoprf::Server::puncture: the tag leaves the active set for good
Puncture(srv, md) == [srv EXCEPT !.active = @ \ {md}]

\* whether a call of the primitive meets an internal fault: puncture and
\* new return a Result, and the caller cannot rule the error out
Faults == BOOLEAN

\* ppoprf::Server::eval succeeds on an active tag only
EvalOk(srv, md) == md \in srv.active

\* the evaluation of one point: determined by the key and the tag
Eval(srv, md) == [key |-> srv.key, tag |-> md]

\* the public key served for an instance
PublicKey(srv) == srv.key

(***************************************************************************)
(* Schedule arithmetic of epoch_loop.                                      *)
(***************************************************************************)

\* Duration::from_secs(config.epoch_seconds)
interval(c) == c.epoch_seconds * TicksPerSec

\* config.epoch_base_time.unwrap_or(start_time)
BaseTimeOf(c, start) ==
    IF c.epoch_base_time = None THEN start ELSE c.epoch_base_time

\* the quotient rounded up instead of down
ElapsedEpochsCeil(c, start, base) ==
    (start - base + interval(c) - 1) \div interval(c)

\* ((start_time - base_time) / interval).floor() as u64
ElapsedEpochs(c, start, base) == (start - base) \div interval(c)

\* elapsed_epochs % epochs.len() as u64
Offset(c, elapsed) == elapsed % (c.last_epoch - c.first_epoch + 1)

\* epochs.start() + offset as u8
CurrentEpoch(c, elapsed) == c.first_epoch + (Offset(c, elapsed) % (U8_MAX + 1))

\* A u64 too large for a machine integer of the model is written as
\* <<hi, lo>>, standing for hi * 65536 + lo with 0 <= lo < 65536.
Digits(n) == <<n \div 65536, n % 65536>>

\* n + 1 on <<hi, lo>>
Succ(d) == IF d[2] = 65535 THEN <<d[1] + 1, 0>> ELSE <<d[1], d[2] + 1>>

\* `as u32` on <<hi, lo>>: the value modulo 2^32
AsU32(d) == <<d[1] % 65536, d[2]>>

\* the comparison written <= instead of <
BelowOrAtU32Max(d) == d[1] <= 65535

\* d < u32::MAX, with u32::MAX = <<65535, 65535>>
BelowU32Max(d) == d[1] < 65535 \/ (d[1] = 65535 /\ d[2] < 65535)

\* elapsed_epochs < u32::MAX as u64
CastFits(elapsed) == BelowU32Max(Digits(elapsed))

\* the first rotation one interval early
FirstRotationEarly(c, base, elapsed) == base + interval(c) * elapsed

\* base_time + interval * (elapsed_epochs + 1) as u32
FirstRotation(c, base, elapsed) == base + interval(c) * (elapsed + 1)

\* next_rotation -= interval
AdvanceRotationBack(c, nr) == nr - interval(c)

\* the schedule re-anchored at the clock: next_rotation = now + interval
AdvanceRotationFromClock(c, nr) == now + interval(c)

\* next_rotation += interval
AdvanceRotation(c, nr) == nr + interval(c)

\* next_rotation.replace_millisecond(0): the sub-second part is dropped
ReplaceMillisecond0(t) == t - (t % TicksPerSec)

\* .format(&Rfc3339): the text names the second and the sub-second part
FormatRfc3339(t) == [secs |-> t \div TicksPerSec, frac |-> t % TicksPerSec]

\* the timestamp the loop publishes for a next_rotation
Timestamp(nr) == FormatRfc3339(ReplaceMillisecond0(nr))

\* a delay that is never taken for positive: the sleep is always skipped
SleepNever(nr, t) == FALSE

\* sleep_duration.is_positive()
SleepPositive(nr, t) == nr - t > 0

\* old_epoch.checked_add(1)
CheckedAdd1(e) == IF e = U8_MAX THEN None ELSE e + 1

\* the overflow check alone, without epochs.contains
NewEpochNoContains(c, new) == new /= None

\* new_epoch.filter(|e| epochs.contains(e)).is_some()
NewEpochInRange(c, new) == new /= None /\ new \in epochs(c)

(***************************************************************************)
(* The RwLock around the state cell.                                       *)
(***************************************************************************)

\* a write lock that does not wait for the readers
CanWriteDespiteReaders == ~writer

\* state.write() returns once there is no other guard
CanWrite == ~writer /\ readers = 0

\* state.read() returns once there is no write guard
CanRead == ~writer

(***************************************************************************)
(* Initial state: OPRFServer::new(config) in an Arc<RwLock<..>>, the       *)
(* scheduler task and the handler task not yet started.                    *)
(***************************************************************************)

\* a constructor that presets a timestamp
OPRFServerNewWithTime(c, k) ==
    [server |-> ServerNew(c, k), epoch |-> c.first_epoch,
     next_epoch_time |-> Some(FormatRfc3339(0))]

\* OPRFServer::new(config) with the k-th key: epoch = epochs[0], no timestamp
OPRFServerNew(c, k) ==
    [server |-> ServerNew(c, k), epoch |-> c.first_epoch,
     next_epoch_time |-> NoString]

NoReq == [kind |-> "none", n |-> 0, bad |-> FALSE, epoch |-> None]
\* no response (yet): status 0
NoResp ==
    [status |-> 0, epoch |-> None, points |-> 0, evaluated |-> 0,
     results |-> {}, next_epoch_time |-> NoString, max_points |-> 0,
     public_key |-> None, current_epoch |-> None]

HistInit ==
    [ticks |-> 0,            \* completed iterations of the rotation loop
     pubs |-> 0,             \* publications of next_epoch_time
     first_pub |-> NoString, \* the first timestamp published
     first_pub_epoch |-> None, \* the epoch held at the first publication
     gen_pub |-> NoString,   \* the timestamp last published for this key
     catchup_log |-> <<>>,   \* tags punctured by the catch-up, in order
     catchup_locks |-> 0,    \* write-lock acquisitions of the catch-up
     behind |-> FALSE,       \* the running iteration skipped its sleep
     factor |-> <<>>,        \* (elapsed_epochs + 1) as u32, as <<hi, lo>>
     failed |-> FALSE,       \* an .expect() on the primitive has panicked
     pub_epoch |-> None,     \* current_epoch at the latest publication
     rot_time |-> None]      \* the clock when the tick replaced the key,
                             \* kept until the loop has published again

Init ==
    /\ cfg \in Configs
    /\ now = StartTime
    /\ server = OPRFServerNew(cfg, 0).server
    /\ epoch = OPRFServerNew(cfg, 0).epoch
    /\ next_epoch_time = OPRFServerNew(cfg, 0).next_epoch_time
    /\ writer = FALSE
    /\ readers = 0
    /\ pc = "start"
    /\ start_time = None /\ base_time = None /\ elapsed_epochs = None
    /\ current_epoch = None /\ next_rotation = None /\ iter = None
    /\ timestamp = FormatRfc3339(0) /\ sleep_until = None /\ old_epoch = None
    /\ hpc = "idle" /\ req = NoReq /\ tag = None /\ done = 0
    /\ evals = {} /\ resp = NoResp
    /\ hist = HistInit

(***************************************************************************)
(* The wall clock.  The scheduler reads its start time in its first step;  *)
(* the clock is followed from there.                                       *)
(***************************************************************************)
ClockTick ==
    /\ pc /= "start"
    /\ now < MaxTime
    /\ now' = now + 1
    /\ UNCHANGED <<cfg, cell, lock, sched, handler, hist>>

(***************************************************************************)
(* epoch_loop, lines 44-101: the schedule derivation and the catch-up.     *)
(***************************************************************************)

\* lines 45-76: read the clock, derive the position in the schedule
SchedStart ==
    /\ pc = "start"
    /\ start_time' = now
    /\ base_time' = BaseTimeOf(cfg, now)
    /\ IF now >= base_time'
       THEN /\ elapsed_epochs' = ElapsedEpochs(cfg, now, base_time')
            /\ current_epoch' = CurrentEpoch(cfg, elapsed_epochs')
            /\ pc' = IF current_epoch' /= cfg.first_epoch
                     THEN "catchup_lock" ELSE "init_rotation"
       ELSE \* assert!(start_time >= base_time) panics
            /\ pc' = "aborted"
            /\ UNCHANGED <<elapsed_epochs, current_epoch>>
    /\ UNCHANGED <<cfg, now, cell, lock, next_rotation, iter, timestamp,
                   sleep_until, old_epoch, handler, hist>>

\* a guard that outlives its block
GuardOutlivesScope == TRUE

\* whether the write guard `s` is still held once its block has ended: the
\* blocks of lines 80-93 and 111-120 and the loop body (line 156) drop it
GuardAfterScope == FALSE

\* a lock that forgets a panic: the unwinding drops the guard and the
\* lock is free again
GuardReleasedOnPanic == FALSE

\* a panic under the write guard poisons std::sync::RwLock: every later
\* read() or write() returns an error, none obtains a guard.  The cell stays
\* as closed as under a writer that never releases.
GuardAfterPanic == TRUE

\* line 85: state.write()
CatchupLock ==
    /\ pc = "catchup_lock"
    /\ CanWrite
    /\ writer' = TRUE
    /\ iter' = cfg.first_epoch
    /\ pc' = "catchup"
    /\ hist' = [hist EXCEPT !.catchup_locks = @ + 1]
    /\ UNCHANGED <<cfg, now, cell, readers, start_time, base_time,
                   elapsed_epochs, current_epoch, next_rotation, timestamp,
                   sleep_until, old_epoch, handler>>

\* lines 86-90: one turn of `for epoch in config.first_epoch..current_epoch`
CatchupPuncture ==
    /\ pc = "catchup"
    /\ iter < current_epoch
    /\ \E fault \in Faults :
          IF PunctureOk(server, iter) /\ ~fault
          THEN /\ server' = Puncture(server, iter)
               /\ iter' = iter + 1
               /\ pc' = "catchup"
               /\ hist' = [hist EXCEPT !.catchup_log = Append(@, iter)]
               /\ UNCHANGED writer
          ELSE \* .expect("Failed to puncture obsolete epoch") panics
               /\ pc' = "aborted"
               /\ writer' = GuardAfterPanic
               /\ hist' = [hist EXCEPT !.failed = TRUE]
               /\ UNCHANGED <<server, iter>>
    /\ UNCHANGED <<cfg, now, epoch, next_epoch_time, readers, start_time,
                   base_time, elapsed_epochs, current_epoch, next_rotation,
                   timestamp, sleep_until, old_epoch, handler>>

\* lines 91-93: s.epoch = current_epoch, and the guard is dropped
CatchupSetEpoch ==
    /\ pc = "catchup"
    /\ ~(iter < current_epoch)
    /\ epoch' = current_epoch
    /\ writer' = GuardAfterScope
    /\ pc' = "init_rotation"
    /\ UNCHANGED <<cfg, now, server, next_epoch_time, readers, start_time,
                   base_time, elapsed_epochs, current_epoch, next_rotation,
                   iter, timestamp, sleep_until, old_epoch, handler, hist>>

\* lines 99-101: the first rotation instant
InitRotation ==
    /\ pc = "init_rotation"
    /\ IF CastFits(elapsed_epochs)
       THEN /\ next_rotation' =
                   FirstRotation(cfg, base_time, elapsed_epochs)
            /\ pc' = "publish_lock"
            /\ hist' = [hist EXCEPT
                          !.factor = AsU32(Succ(Digits(elapsed_epochs)))]
       ELSE \* assert!(elapsed_epochs < u32::MAX as u64) panics
            /\ pc' = "aborted"
            /\ UNCHANGED <<next_rotation, hist>>
    /\ UNCHANGED <<cfg, now, cell, lock, start_time, base_time,
                   elapsed_epochs, current_epoch, iter, timestamp,
                   sleep_until, old_epoch, handler>>

(***************************************************************************)
(* The same lines for a base time so far back that the elapsed count       *)
(* nears 2^32.  Such an instant and such a count are beyond the integers   *)
(* of the model, so the count is held as <<hi, lo>> and the base time as   *)
(* [back |-> d, rem |-> r]: the instant r ticks and d whole intervals      *)
(* before StartTime, the instant at which the process starts.              *)
(***************************************************************************)

\* d mod m for a small m
DigitsMod(d, m) == (((d[1] % m) * (65536 % m)) + d[2]) % m

\* a < b on <<hi, lo>>
DigitsLess(a, b) == a[1] < b[1] \/ (a[1] = b[1] /\ a[2] < b[2])

\* a - b on <<hi, lo>>, for a >= b
DigitsMinus(a, b) ==
    IF a[2] >= b[2] THEN <<a[1] - b[1], a[2] - b[2]>>
    ELSE <<a[1] - b[1] - 1, a[2] + 65536 - b[2]>>

\* elapsed counts from 2^16 on, around 2^32 and beyond
CastElapsed ==
    {<<hi, lo>> : hi \in {1, 65535, 65536, 131071},
                  lo \in {0, 1, 65534, 65535}}

\* the range of the tests, with a base time far back and between two ticks
\* of the schedule
CastConfigs ==
    {[first_epoch |-> 12, last_epoch |-> 14, epoch_seconds |-> 1,
      epoch_base_time |-> [back |-> d, rem |-> 1]] : d \in CastElapsed}

CastInit ==
    /\ cfg \in CastConfigs
    /\ now = StartTime
    /\ server = OPRFServerNew(cfg, 0).server
    /\ epoch = OPRFServerNew(cfg, 0).epoch
    /\ next_epoch_time = OPRFServerNew(cfg, 0).next_epoch_time
    /\ writer = FALSE
    /\ readers = 0
    /\ pc = "start"
    /\ start_time = None /\ base_time = None /\ elapsed_epochs = None
    /\ current_epoch = None /\ next_rotation = None /\ iter = None
    /\ timestamp = FormatRfc3339(0) /\ sleep_until = None /\ old_epoch = None
    /\ hpc = "idle" /\ req = NoReq /\ tag = None /\ done = 0
    /\ evals = {} /\ resp = NoResp
    /\ hist = HistInit

\* ((start_time - base_time) / interval).floor() as u64: the whole
\* intervals between the base time and the start
CastElapsedEpochs(c, base) == base.back

\* first_epoch + (elapsed_epochs % epochs.len() as u64) as u8
CastCurrentEpoch(c, elapsed) ==
    c.first_epoch + DigitsMod(elapsed, c.last_epoch - c.first_epoch + 1)

\* base_time + interval * factor: an instant of the clock when the factor
\* exceeds the whole intervals back to the base time (by one, at most),
\* otherwise an instant that far back again
CastFirstRotation(c, base, factor) ==
    IF DigitsLess(base.back, factor)
    THEN StartTime - base.rem
            + interval(c) * ((factor[1] - base.back[1]) * 65536
                             + (factor[2] - base.back[2]))
    ELSE [back |-> DigitsMinus(base.back, factor), rem |-> base.rem]

\* lines 45-76 with the base time far back: the assert of line 64 holds
CastSchedStart ==
    /\ pc = "start"
    /\ start_time' = now
    /\ base_time' = cfg.epoch_base_time
    /\ elapsed_epochs' = CastElapsedEpochs(cfg, base_time')
    /\ current_epoch' = CastCurrentEpoch(cfg, elapsed_epochs')
    /\ pc' = IF current_epoch' /= cfg.first_epoch
             THEN "catchup_lock" ELSE "init_rotation"
    /\ UNCHANGED <<cfg, now, cell, lock, next_rotation, iter, timestamp,
                   sleep_until, old_epoch, handler, hist>>

\* lines 99-101: the assert, the cast of the factor, the first rotation
CastInitRotation ==
    /\ pc = "init_rotation"
    /\ IF BelowU32Max(elapsed_epochs)
       THEN /\ next_rotation' =
                   CastFirstRotation(cfg, base_time,
                                     AsU32(Succ(elapsed_epochs)))
            /\ hist' = [hist EXCEPT !.factor = AsU32(Succ(elapsed_epochs))]
            /\ pc' = "publish_lock"
       ELSE \* assert!(elapsed_epochs < u32::MAX as u64) panics
            /\ pc' = "aborted"
            /\ UNCHANGED <<next_rotation, hist>>
    /\ UNCHANGED <<cfg, now, cell, lock, start_time, base_time,
                   elapsed_epochs, current_epoch, iter, timestamp,
                   sleep_until, old_epoch, handler>>

(***************************************************************************)
(* epoch_loop, lines 103-156: the rotation loop.                           *)
(***************************************************************************)

\* lines 106-118: format the timestamp, then state.write()
PublishLock ==
    /\ pc = "publish_lock"
    /\ CanWrite
    /\ timestamp' = Timestamp(next_rotation)
    /\ writer' = TRUE
    /\ pc' = "publish"
    /\ UNCHANGED <<cfg, now, cell, readers, start_time, base_time,
                   elapsed_epochs, current_epoch, next_rotation, iter,
                   sleep_until, old_epoch, handler, hist>>

\* lines 119-120: s.next_epoch_time = Some(timestamp), the guard is dropped
PublishWrite ==
    /\ pc = "publish"
    /\ next_epoch_time' = Some(timestamp)
    /\ writer' = GuardAfterScope
    /\ pc' = "sleep_check"
    /\ hist' = [hist EXCEPT
                  !.pubs = @ + 1,
                  !.first_pub = IF hist.pubs = 0 THEN Some(timestamp) ELSE @,
                  !.first_pub_epoch = IF hist.pubs = 0 THEN epoch ELSE @,
                  !.gen_pub = Some(timestamp),
                  !.pub_epoch = epoch]
    /\ UNCHANGED <<cfg, now, server, epoch, readers, start_time, base_time,
                   elapsed_epochs, current_epoch, next_rotation, iter,
                   timestamp, sleep_until, old_epoch, handler>>

\* lines 123-126: a positive delay starts a tokio sleep
SleepBegin ==
    /\ pc = "sleep_check"
    /\ SleepPositive(next_rotation, now)
    /\ sleep_until' = now + (next_rotation - now)
    /\ pc' = "sleeping"
    /\ hist' = [hist EXCEPT !.rot_time = None]
    /\ UNCHANGED <<cfg, now, cell, lock, start_time, base_time,
                   elapsed_epochs, current_epoch, next_rotation, iter,
                   timestamp, old_epoch, handler>>

\* lines 125-128: behind schedule, no sleep; next_rotation += interval
SleepSkip ==
    /\ pc = "sleep_check"
    /\ ~SleepPositive(next_rotation, now)
    /\ next_rotation' = AdvanceRotation(cfg, next_rotation)
    /\ pc' = "tick_lock"
    /\ hist' = [hist EXCEPT !.behind = TRUE, !.rot_time = None]
    /\ UNCHANGED <<cfg, now, cell, lock, start_time, base_time,
                   elapsed_epochs, current_epoch, iter, timestamp,
                   sleep_until, old_epoch, handler>>

\* lines 126-128: the sleep returns at or after its deadline
SleepWake ==
    /\ pc = "sleeping"
    /\ now >= sleep_until
    /\ next_rotation' = AdvanceRotation(cfg, next_rotation)
    /\ pc' = "tick_lock"
    /\ UNCHANGED <<cfg, now, cell, lock, start_time, base_time,
                   elapsed_epochs, current_epoch, iter, timestamp,
                   sleep_until, old_epoch, handler, hist>>

\* line 133: state.write()
TickLock ==
    /\ pc = "tick_lock"
    /\ CanWrite
    /\ writer' = TRUE
    /\ pc' = "tick_puncture"
    /\ UNCHANGED <<cfg, now, cell, readers, start_time, base_time,
                   elapsed_epochs, current_epoch, next_rotation, iter,
                   timestamp, sleep_until, old_epoch, handler, hist>>

\* lines 136-139: puncture the current epoch
TickPuncture ==
    /\ pc = "tick_puncture"
    /\ old_epoch' = epoch
    /\ \E fault \in Faults :
          IF PunctureOk(server, epoch) /\ ~fault
          THEN /\ server' = Puncture(server, epoch)
               /\ pc' = "tick_advance"
               /\ UNCHANGED <<writer, hist>>
          ELSE \* .expect("Failed to puncture current epoch") panics
               /\ pc' = "aborted"
               /\ writer' = GuardAfterPanic
               /\ hist' = [hist EXCEPT !.failed = TRUE]
               /\ UNCHANGED server
    /\ UNCHANGED <<cfg, now, epoch, next_epoch_time, readers, start_time,
                   base_time, elapsed_epochs, current_epoch, next_rotation,
                   iter, timestamp, sleep_until, handler>>

\* the tick without the range check: the epoch always becomes old + 1
AdvancedNoRangeCheck(c, srv, old, nxt) ==
    [server |-> srv, epoch |-> CheckedAdd1(old), next_epoch_time |-> nxt]

\* the tick that forgets to store the new epoch
AdvancedKeepsEpoch(c, srv, old, nxt) ==
    IF NewEpochInRange(c, CheckedAdd1(old))
    THEN [server |-> srv, epoch |-> old, next_epoch_time |-> nxt]
    ELSE [server |-> ServerNew(c, srv.key + 1), epoch |-> c.first_epoch,
          next_epoch_time |-> NoString]

\* the tick that jumps over an epoch
AdvancedSkipsEpoch(c, srv, old, nxt) ==
    IF NewEpochInRange(c, CheckedAdd1(old))
    THEN [server |-> srv,
          epoch |-> IF old + 2 \in epochs(c) THEN old + 2 ELSE old + 1,
          next_epoch_time |-> nxt]
    ELSE OPRFServerNew(c, srv.key + 1)

\* the tick that wraps to first_epoch and keeps the instance
AdvancedWraps(c, srv, old, nxt) ==
    IF NewEpochInRange(c, CheckedAdd1(old))
    THEN [server |-> srv, epoch |-> CheckedAdd1(old), next_epoch_time |-> nxt]
    ELSE [server |-> srv, epoch |-> c.first_epoch, next_epoch_time |-> nxt]

\* the state the tick leaves in the cell (lines 143-154)
Advanced(c, srv, old, nxt) ==
    IF NewEpochInRange(c, CheckedAdd1(old))
    THEN [server |-> srv, epoch |-> CheckedAdd1(old), next_epoch_time |-> nxt]
    ELSE OPRFServerNew(c, srv.key + 1)

\* lines 143-154: advance the epoch, or rotate the key
TickAdvance ==
    /\ pc = "tick_advance"
    /\ \E fault \in Faults :
          IF NewEpochInRange(cfg, CheckedAdd1(old_epoch)) \/ ~fault
          THEN /\ server' =
                     Advanced(cfg, server, old_epoch, next_epoch_time).server
               /\ epoch' =
                     Advanced(cfg, server, old_epoch, next_epoch_time).epoch
               /\ next_epoch_time' =
                     Advanced(cfg, server, old_epoch,
                              next_epoch_time).next_epoch_time
               /\ pc' = "tick_end"
               /\ hist' = [hist EXCEPT
                             !.gen_pub = IF server'.key /= server.key
                                         THEN NoString ELSE @,
                             !.rot_time = IF server'.key /= server.key
                                          THEN now ELSE None]
               /\ UNCHANGED writer
          ELSE \* line 31: .expect("Could not initialize PPOPRF state")
               \* panics inside OPRFServer::new, before the assignment
               /\ pc' = "aborted"
               /\ writer' = GuardAfterPanic
               /\ hist' = [hist EXCEPT !.failed = TRUE]
               /\ UNCHANGED cell
    /\ UNCHANGED <<cfg, now, readers, start_time, base_time, elapsed_epochs,
                   current_epoch, next_rotation, iter, timestamp,
                   sleep_until, old_epoch, handler>>

\* lines 155-156: the guard is dropped at the end of the loop body
TickRelease ==
    /\ pc = "tick_end"
    /\ writer' = GuardAfterScope
    /\ pc' = "publish_lock"
    /\ hist' = [hist EXCEPT !.ticks = @ + 1, !.behind = FALSE]
    /\ UNCHANGED <<cfg, now, cell, readers, start_time, base_time,
                   elapsed_epochs, current_epoch, next_rotation, iter,
                   timestamp, sleep_until, old_epoch, handler>>

Scheduler ==
    \/ SchedStart
    \/ CatchupLock
    \/ CatchupPuncture
    \/ CatchupSetEpoch
    \/ InitRotation
    \/ PublishLock
    \/ PublishWrite
    \/ SleepBegin
    \/ SleepSkip
    \/ SleepWake
    \/ TickLock
    \/ TickPuncture
    \/ TickAdvance
    \/ TickRelease

(***************************************************************************)
(* The request handlers (crate root, outside src/state.rs): modelled from  *)
(* the specification's sections 4.3 and 4.4.  One handler task serves one  *)
(* request at a time; a request is its kind, the number of points, whether *)
(* some point fails to decode, and the optional epoch tag.                 *)
(***************************************************************************)

\* the cap on the points of one request
MAX_POINTS == MaxPointsBound

\* the epoch tags a client sends: none, the first epoch and the one after it
\* (each is below, equal to or above the current epoch at some moment)
ReqTags(c) ==
    {None, c.first_epoch} \cup {t \in {c.first_epoch + 1} : t <= U8_MAX}

\* the randomness requests: a bad point needs a point
Requests(c) ==
    {r \in [kind : {"randomness"}, n : 0 .. MAX_POINTS + 1, bad : BOOLEAN,
            epoch : ReqTags(c)] : r.bad => r.n >= 1}

\* the cap compared with < instead of <=
PointsValidBelowCap(r) == r.n >= 1 /\ r.n < MAX_POINTS /\ ~r.bad

\* rules 1 and 2 only: the points are decoded one by one while evaluating
PointsValidLazyDecode(r) == r.n >= 1 /\ r.n <= MAX_POINTS

\* validation rules 1-3: non-empty, within the cap, every point decodes
PointsValid(r) == r.n >= 1 /\ r.n <= MAX_POINTS /\ ~r.bad

\* rule 4 that lets an older epoch through
EpochAcceptedOlder(r, cur) == r.epoch = None \/ r.epoch <= cur

\* validation rule 4: a given epoch equals the current one
EpochAccepted(r, cur) == r.epoch = None \/ r.epoch = cur

\* a 400 response, with the evaluations the request had performed by then
Rejection(n) == [NoResp EXCEPT !.status = 400, !.evaluated = n]

\* decoding the i-th point of the request: a bad point is the last one
Decodes(r, i) == ~(r.bad /\ i = r.n)

\* info: a request arrives and takes a read snapshot of the cell
HandlerInfo ==
    /\ hpc = "idle"
    /\ CanRead
    /\ req' = [kind |-> "info", n |-> 0, bad |-> FALSE, epoch |-> None]
    /\ resp' = [NoResp EXCEPT
                  !.status = 200,
                  !.current_epoch = epoch,
                  !.next_epoch_time = next_epoch_time,
                  !.max_points = MAX_POINTS,
                  !.public_key = PublicKey(server)]
    /\ UNCHANGED <<cfg, now, cell, lock, sched, hpc, tag, done, evals, hist>>

\* randomness: a request arrives; rules 1-3, before the state is read
HandlerReceive ==
    /\ hpc = "idle"
    /\ \E r \in Requests(cfg) :
          /\ req' = r
          /\ IF PointsValid(r)
             THEN hpc' = "validated" /\ resp' = NoResp
             ELSE hpc' = "idle" /\ resp' = Rejection(done)
    /\ UNCHANGED <<cfg, now, cell, lock, sched, tag, done, evals, hist>>

\* randomness: take the read lock
HandlerReadLock ==
    /\ hpc = "validated"
    /\ CanRead
    /\ readers' = readers + 1
    /\ hpc' = "locked"
    /\ UNCHANGED <<cfg, now, cell, writer, sched, req, tag, done, evals,
                   resp, hist>>

\* randomness: rule 4 under the read lock
HandlerCheckEpoch ==
    /\ hpc = "locked"
    /\ IF EpochAccepted(req, epoch)
       THEN /\ tag' = epoch
            /\ hpc' = "evaluating"
            /\ UNCHANGED <<readers, resp>>
       ELSE /\ resp' = Rejection(done)
            /\ readers' = readers - 1
            /\ hpc' = "idle"
            /\ UNCHANGED tag
    /\ UNCHANGED <<cfg, now, cell, writer, sched, req, done, evals, hist>>

\* randomness: evaluate the next point under the read lock
HandlerEval ==
    /\ hpc = "evaluating"
    /\ done < req.n
    /\ IF Decodes(req, done + 1) /\ EvalOk(server, tag)
       THEN /\ evals' = evals \cup {Eval(server, tag)}
            /\ done' = done + 1
            /\ UNCHANGED <<hpc, readers, resp, tag>>
       ELSE \* a point that does not decode is a client error, an
            \* evaluation error an internal failure
            /\ resp' = IF Decodes(req, done + 1)
                       THEN [NoResp EXCEPT !.status = 500, !.evaluated = done]
                       ELSE Rejection(done)
            /\ readers' = readers - 1
            /\ hpc' = "idle"
            /\ tag' = None /\ done' = 0 /\ evals' = {}
    /\ UNCHANGED <<cfg, now, cell, writer, sched, req, hist>>

\* randomness: respond and drop the read lock
HandlerRespond ==
    /\ hpc = "evaluating"
    /\ done = req.n
    /\ resp' = [NoResp EXCEPT
                  !.status = 200, !.epoch = tag, !.points = done,
                  !.evaluated = done, !.results = evals]
    /\ readers' = readers - 1
    /\ hpc' = "idle"
    /\ tag' = None /\ done' = 0 /\ evals' = {}
    /\ UNCHANGED <<cfg, now, cell, writer, sched, req, hist>>

\* the surrounding server cancels the handler: its guard and its partial
\* response are dropped
HandlerCancel ==
    /\ hpc \in {"validated", "locked", "evaluating"}
    /\ readers' = IF hpc \in {"locked", "evaluating"}
                  THEN readers - 1 ELSE readers
    /\ hpc' = "idle"
    /\ req' = NoReq
    /\ tag' = None /\ done' = 0 /\ evals' = {} /\ resp' = NoResp
    /\ UNCHANGED <<cfg, now, cell, writer, sched, hist>>

Handler ==
    \/ HandlerInfo
    \/ HandlerReceive
    \/ HandlerReadLock
    \/ HandlerCheckEpoch
    \/ HandlerEval
    \/ HandlerRespond
    \/ HandlerCancel

Next == ClockTick \/ Scheduler \/ Handler

Spec == Init /\ [][Next]_vars

(***************************************************************************)
(* The program started with a base time far back: the schedule derivation  *)
(* and the first rotation at full width, everything else as above.         *)
(***************************************************************************)

CastScheduler ==
    \/ CastSchedStart
    \/ CatchupLock
    \/ CatchupPuncture
    \/ CatchupSetEpoch
    \/ CastInitRotation
    \/ PublishLock
    \/ PublishWrite
    \/ SleepBegin
    \/ SleepSkip
    \/ SleepWake
    \/ TickLock
    \/ TickPuncture
    \/ TickAdvance
    \/ TickRelease

CastNext == ClockTick \/ CastScheduler \/ Handler

CastSpec == CastInit /\ [][CastNext]_vars

(***************************************************************************)
(* The same program under fair scheduling, for one configuration with a    *)
(* catch-up and a key rotation inside the horizon.  The tokio runtime      *)
(* keeps polling the scheduler task, so a step of epoch_loop that stays    *)
(* possible is taken; a fair lock grants a read() that is possible again   *)
(* and again.  Nothing obliges the clock, the clients or a cancellation.   *)
(***************************************************************************)

LiveConfigs ==
    {c \in Configs : /\ c.first_epoch = U8_MAX - 1
                     /\ c.epoch_base_time =
                            StartTime - (5 * TicksPerSec) \div 2}

LiveInit == Init /\ cfg \in LiveConfigs

LiveSpec ==
    /\ LiveInit
    /\ [][Next]_vars
    /\ WF_vars(Scheduler)
    /\ SF_vars(HandlerReadLock)

(***************************************************************************)
(* Properties.                                                             *)
(***************************************************************************)

\* the instant a formatted timestamp names
TimeOf(ts) == ts.secs * TicksPerSec + ts.frac

\* the number of tags of the configured range
RangeLen == cfg.last_epoch - cfg.first_epoch + 1

\* a state a reader can observe: the write lock is not held
Observable == ~writer

\* C1: whenever the write lock is not held, current_epoch lies in
\* [first_epoch, last_epoch] and every tag of [first_epoch, current_epoch)
\* is punctured in the instance the cell holds.
C1_EpochInRangeAndPastPunctured ==
    Observable =>
        /\ cfg.first_epoch <= epoch /\ epoch <= cfg.last_epoch
        /\ \A t \in cfg.first_epoch .. epoch - 1 : t \notin server.active

\* a reader can observe the cell after a catch-up, a key rotation and a
\* further tick
C1_Witness ==
    /\ Observable
    /\ hist.catchup_log /= <<>>
    /\ server.key >= 1
    /\ epoch > cfg.first_epoch

\* C2: whenever the write lock is not held, and whenever a read guard is
\* alive, current_epoch is active in the held instance and the active set
\* is exactly [current_epoch, last_epoch], a subset of the range: no
\* half-applied catch-up or tick is visible.
C2_CurrentEpochActive ==
    (Observable \/ readers > 0) =>
        /\ epoch \in server.active
        /\ server.active = epoch .. cfg.last_epoch
        /\ server.active \subseteq cfg.first_epoch .. cfg.last_epoch

\* a reader holds its guard while the scheduler, past at least one tick,
\* waits for the write lock of the next tick
C2_Witness ==
    /\ readers > 0
    /\ pc = "tick_lock"
    /\ hist.ticks >= 1
    /\ epoch > cfg.first_epoch

\* C3: a randomness request with an explicit epoch tag e ends with a 400
\* rejection or with a success whose epoch is e; while it is evaluated, e
\* equals the current epoch read under the guard (any other e was
\* rejected).
C3_ExplicitEpochExactOrRejected ==
    (req.kind = "randomness" /\ req.epoch /= None) =>
        /\ resp.status \in {0, 400, 200}
        /\ resp.status = 200 => resp.epoch = req.epoch
        /\ hpc = "evaluating" => (req.epoch = tag /\ tag = epoch)

\* a request naming the epoch after the first succeeds once the scheduler
\* has ticked
C3_Witness ==
    /\ req.kind = "randomness"
    /\ req.epoch = cfg.first_epoch + 1
    /\ resp.status = 200
    /\ resp.epoch = req.epoch
    /\ hist.ticks >= 1

\* C4: all points of one request are evaluated under one tag and one key,
\* those of the cell while the request is served, and the response reports
\* that tag.
C4_OneTagPerRequest ==
    /\ hpc = "evaluating" =>
          \A r \in evals : r = Eval(server, tag) /\ tag = epoch
    /\ (req.kind = "randomness" /\ resp.status /= 0) =>
          resp.status \in {200, 400}
    /\ (req.kind = "randomness" /\ resp.status = 200) =>
          /\ Cardinality(resp.results) = 1
          /\ \A r \in resp.results : r.tag = resp.epoch

\* a batch is half evaluated while the scheduler waits for the write lock
\* of a tick
C4_Witness ==
    /\ hpc = "evaluating"
    /\ done >= 1 /\ done < req.n
    /\ pc = "tick_lock"

\* C5: at the first publication the cell holds
\* first_epoch + (floor((T0 - B) / I) mod |R|), the catch-up has punctured
\* [first_epoch, current) in ascending order under one write lock, and the
\* published time is B + I * (floor((T0 - B) / I) + 1) cut to the second.
C5_StartupCatchUp ==
    hist.pubs >= 1 =>
        LET B == IF cfg.epoch_base_time = None
                 THEN start_time ELSE cfg.epoch_base_time
            I == cfg.epoch_seconds * TicksPerSec
            el == (start_time - B) \div I
            cur == cfg.first_epoch + (el % RangeLen)
            nxt == B + I * (el + 1)
        IN  /\ start_time = StartTime
            /\ hist.first_pub_epoch = cur
            /\ hist.catchup_log = [i \in 1 .. cur - cfg.first_epoch |->
                                       cfg.first_epoch + i - 1]
            /\ hist.catchup_locks = IF cur = cfg.first_epoch THEN 0 ELSE 1
            /\ hist.first_pub =
                  Some([secs |-> nxt \div TicksPerSec, frac |-> 0])

\* the example: first = 12, last = 24, one-second epochs, a base time 5 s
\* before the start: epoch 17, next epoch time one second after the start
C5_Witness ==
    /\ cfg.first_epoch = 12 /\ cfg.last_epoch = 24 /\ cfg.epoch_seconds = 1
    /\ cfg.epoch_base_time = StartTime - 5 * TicksPerSec
    /\ hist.pubs = 1
    /\ epoch = 17
    /\ next_epoch_time =
          Some([secs |-> (StartTime + TicksPerSec) \div TicksPerSec,
                frac |-> 0])

\* C6: once |R| ticks have completed, the key in the cell is no longer the
\* key the process started with.
C6_KeyChangedAfterRangeTicks ==
    hist.ticks >= RangeLen => PublicKey(server) /= PublicKey(ServerNew(cfg, 0))

\* exactly |R| ticks of a range of several tags, without catch-up
C6_Witness ==
    /\ RangeLen >= 2
    /\ hist.catchup_log = <<>>
    /\ hist.ticks = RangeLen
    /\ server.key = 1

\* C7: once next_epoch_time has been published, every reader finds it
\* present.
C7_NextEpochTimeStaysPresent ==
    (hist.pubs >= 1 /\ Observable) => next_epoch_time /= NoString

\* C8: a publication never writes an earlier time than the one published
\* before it for the same key.
C8_PublishedTimeMonotonic ==
    [][(hist'.pubs /= hist.pubs /\ hist.gen_pub /= NoString) =>
          TimeOf(next_epoch_time'[1]) >= TimeOf(hist.gen_pub[1])]_vars

\* a second publication for the first key, made while the scheduler is
\* behind the wall clock
C8_Witness ==
    /\ pc = "sleep_check"
    /\ server.key = 0
    /\ hist.pubs >= 2
    /\ hist.gen_pub = next_epoch_time
    /\ ~SleepPositive(next_rotation, now)

\* C9: a request of n well-formed points without epoch tag succeeds, with
\* n result points, exactly when 1 <= n <= max_points; n = 0 and
\* n = max_points + 1 get 400; info reports the cap that is enforced.
C9_BatchSizeBounds ==
    /\ (req.kind = "randomness" /\ ~req.bad /\ req.epoch = None
            /\ resp.status /= 0) =>
          /\ resp.status = 200 <=> (1 <= req.n /\ req.n <= MAX_POINTS)
          /\ resp.status = 200 => resp.points = req.n
          /\ req.n \in {0, MAX_POINTS + 1} => resp.status = 400
    /\ (req.kind = "info" /\ resp.status = 200) =>
          resp.max_points = MAX_POINTS

\* a batch of exactly max_points points has been answered
C9_Witness ==
    /\ req.kind = "randomness" /\ ~req.bad /\ req.epoch = None
    /\ req.n = MAX_POINTS
    /\ resp.status = 200
    /\ resp.points = MAX_POINTS

\* C10: the cell changes only in steps of the scheduler taken under the
\* write lock, never in a step of a handler, and a request answered with
\* 400 has evaluated nothing.
C10_SchedulerSoleWriter ==
    /\ [][cell' /= cell => (writer /\ handler' = handler)]_vars
    /\ [](resp.status = 400 => resp.evaluated = 0)

\* a request is rejected for its epoch, under the read lock, after the
\* scheduler has changed the cell
C10_Witness ==
    /\ req.kind = "randomness" /\ req.epoch = cfg.first_epoch
    /\ PointsValid(req)
    /\ resp.status = 400
    /\ epoch /= cfg.first_epoch
    /\ hist.ticks >= 1

\* C11: a tick punctures exactly the current epoch and then either moves
\* current_epoch up by one under the same key or replaces the key at
\* last_epoch and restarts at first_epoch, also when it skipped its sleep;
\* under one key the epoch only grows (none skipped, none served twice).
C11_OneEpochPerTick ==
    [][/\ (pc = "tick_puncture" /\ pc' = "tick_advance") =>
              /\ server.active \ server'.active = {epoch}
              /\ server'.active \subseteq server.active
              /\ server'.key = server.key /\ epoch' = epoch
       /\ (pc = "tick_advance" /\ pc' = "tick_end") =>
              \/ /\ epoch + 1 \in cfg.first_epoch .. cfg.last_epoch
                 /\ epoch' = epoch + 1
                 /\ server' = server
              \/ /\ epoch = cfg.last_epoch
                 /\ epoch' = cfg.first_epoch
                 /\ server'.key /= server.key
       /\ (pc \notin {"tick_puncture", "tick_advance", "catchup"}) =>
              (epoch' = epoch /\ server' = server)]_vars

\* a tick that skipped its sleep has moved the epoch up by one
C11_Witness ==
    /\ pc = "tick_end"
    /\ hist.behind
    /\ hist.ticks >= 1
    /\ server.key = 0
    /\ epoch = old_epoch + 1

\* C12: the tick at last_epoch, 255 included, leaves a new key with the
\* whole range active and current_epoch = first_epoch; any other tick
\* keeps the key.
C12_RotationAtLastEpoch ==
    [][(pc = "tick_advance" /\ pc' = "tick_end") =>
          IF old_epoch = cfg.last_epoch
          THEN /\ server'.key = server.key + 1
               /\ server'.active = cfg.first_epoch .. cfg.last_epoch
               /\ epoch' = cfg.first_epoch
          ELSE /\ server'.key = server.key
               /\ epoch' = old_epoch + 1]_vars

\* the tick at epoch 255 has rotated the key
C12_Witness ==
    /\ pc = "tick_end"
    /\ cfg.last_epoch = U8_MAX
    /\ old_epoch = U8_MAX
    /\ server.key >= 1
    /\ server.active = cfg.first_epoch .. cfg.last_epoch
    /\ epoch = cfg.first_epoch

\* the configured base time lies after the start time the scheduler read
FutureBase ==
    /\ start_time /= None
    /\ cfg.epoch_base_time /= None
    /\ cfg.epoch_base_time > start_time

\* C13: with a base time after the process start the scheduler stops
\* before it takes the write lock, punctures or publishes, so the cell
\* stays as constructed, and from then on no request is served.
C13_AbortOnFutureBase ==
    /\ [](FutureBase =>
             /\ pc = "aborted"
             /\ ~writer /\ hist.catchup_locks = 0 /\ hist.pubs = 0
             /\ epoch = cfg.first_epoch
             /\ server.active = cfg.first_epoch .. cfg.last_epoch
             /\ next_epoch_time = NoString)
    /\ [][(FutureBase /\ pc = "aborted") => handler' = handler]_vars

\* C13, the part about the cell only: it stays as constructed
C13_CellUntouched ==
    FutureBase =>
        /\ pc = "aborted"
        /\ ~writer /\ hist.catchup_locks = 0 /\ hist.pubs = 0
        /\ cell = <<ServerNew(cfg, 0), cfg.first_epoch, NoString>>

\* C14: with a base time so far back that the whole elapsed epochs do not
\* fit in 32 bits, the scheduler ends (after its catch-up) with nothing
\* published, then or later; a count that passes the assert gives a factor
\* elapsed + 1 that the cast to 32 bits leaves unchanged, and the first
\* rotation one interval after the last schedule instant before the start.
C14_CastNeverWraps ==
    LET el == cfg.epoch_base_time.back
    IN  /\ (pc = "aborted" /\ ~hist.failed) =>
              (hist.pubs = 0 /\ next_epoch_time = NoString)
        /\ el[1] >= 65536 =>
              /\ pc \in {"start", "catchup_lock", "catchup", "init_rotation",
                         "aborted"}
              /\ hist.pubs = 0 /\ next_epoch_time = NoString
        /\ hist.factor /= <<>> =>
              /\ hist.factor = Succ(el)
              /\ hist.factor[1] < 65536
        /\ (pc = "publish_lock" /\ hist.pubs = 0) =>
              next_rotation = StartTime - cfg.epoch_base_time.rem
                                 + cfg.epoch_seconds * TicksPerSec

\* the scheduler has aborted on an elapsed count of 2^32, after the
\* catch-up to first_epoch + (2^32 mod 3)
C14_Witness ==
    /\ pc = "aborted"
    /\ elapsed_epochs = <<65536, 0>>
    /\ ~hist.failed
    /\ hist.pubs = 0
    /\ epoch = cfg.first_epoch + 1
    /\ server.active = epoch .. cfg.last_epoch

\* C15: a puncture or a re-initialisation that fails inside the
\* scheduler's critical section ends the scheduler with the lock closed for
\* good: from then on no read guard exists, no handler gets past the lock,
\* no response carries state of the cell, and the cell never changes again.
C15_FailureNeverVisible ==
    /\ [](hist.failed =>
            /\ pc = "aborted"
            /\ ~Observable
            /\ readers = 0
            /\ hpc \in {"idle", "validated"})
    /\ [][hist.failed =>
            /\ cell' = cell
            /\ readers' = 0
            /\ resp' \in {resp, NoResp, Rejection(0)}]_vars

\* the tick has punctured the current epoch and the re-initialisation has
\* failed: the expired epoch is still current_epoch, a request waits at the
\* lock
C15_Witness ==
    /\ hist.failed
    /\ epoch = cfg.last_epoch
    /\ epoch \notin server.active
    /\ old_epoch = epoch
    /\ server.key >= 1
    /\ hpc = "validated"

\* C16: the scheduler holds no write guard while it waits for the next
\* rotation, and none when it is about to call write(); a handler that
\* waits for its read guard gets it (or is cancelled), unless a panic under
\* the write guard has closed the lock for good.
C16_BoundedCriticalSections ==
    /\ [](pc \in {"sleep_check", "sleeping"} => ~writer)
    /\ [](pc \in {"catchup_lock", "publish_lock", "tick_lock"} => ~writer)
    /\ (hpc = "validated") ~> (hpc /= "validated" \/ hist.failed)

\* after a tick, a handler holds a read guard while the scheduler sleeps
C16_Witness ==
    /\ pc = "sleeping"
    /\ hist.ticks >= 1
    /\ hpc = "locked"
    /\ readers = 1
    /\ ~writer

\* C17: when a tick punctures current_epoch, a next_epoch_time is
\* published, it was published while that epoch was current, and the clock
\* is at or past the instant it names; the same holds from the moment the
\* scheduler asks for the tick's write lock.
C17_NoPunctureBeforeAnnounced ==
    /\ [](pc \in {"tick_lock", "tick_puncture"} =>
            /\ next_epoch_time /= NoString
            /\ hist.pub_epoch = epoch
            /\ now >= TimeOf(next_epoch_time[1]))
    /\ [][(pc = "tick_puncture" /\ pc' = "tick_advance") =>
            /\ server.active \ server'.active = {hist.pub_epoch}
            /\ next_epoch_time = hist.gen_pub
            /\ now >= TimeOf(next_epoch_time[1])]_vars

\* a tick that was not behind schedule has punctured an epoch announced for
\* an instant between two whole seconds, published truncated
C17_Witness ==
    /\ pc = "tick_advance"
    /\ ~hist.behind
    /\ hist.ticks >= 1
    /\ next_epoch_time /= NoString
    /\ TimeOf(next_epoch_time[1]) < next_rotation - interval(cfg)
    /\ now = next_rotation - interval(cfg)
    /\ hist.pub_epoch \notin server.active

\* C18 as stated: the publication that follows a key rotation names the
\* instant of the rotation plus one interval, truncated to the second.
C18_ResetToRotationInstant ==
    [][(pc = "publish" /\ pc' = "sleep_check" /\ hist.rot_time /= None) =>
          next_epoch_time' =
              Some([secs |-> (hist.rot_time + interval(cfg)) \div TicksPerSec,
                    frac |-> 0])]_vars

\* C18, amended: every publication, the one that follows a key rotation
\* included, names base_time + (elapsed + k) * interval truncated to the
\* second, k counting the publications from 1; the instant of the rotation
\* plays no part.
C18_PublicationBaseAnchored ==
    [][(pc = "publish" /\ pc' = "sleep_check") =>
          next_epoch_time' =
              Some([secs |-> (base_time + interval(cfg) *
                                 (elapsed_epochs + hist.pubs + 1))
                             \div TicksPerSec,
                    frac |-> 0])]_vars

\* the first publication of a new key is out, and it is not the instant of
\* the rotation plus one interval: the rotation ran late
C18_Witness ==
    /\ pc = "sleep_check"
    /\ server.key >= 1
    /\ hist.rot_time /= None
    /\ next_epoch_time /= NoString
    /\ next_epoch_time[1].secs /=
           (hist.rot_time + interval(cfg)) \div TicksPerSec

\* C19: once the catch-up is over, outside a tick, the cell holds
\* first_epoch + ((elapsed + n) mod |R|) after n completed ticks, with
\* elapsed = floor((T0 - B) / I); and the key is the one numbered
\* floor(((elapsed mod |R|) + n) / |R|): the first key lasts
\* |R| - (elapsed mod |R|) ticks, every later one |R| ticks.
C19_EpochAlignedWithSchedule ==
    pc \in {"init_rotation", "publish_lock", "publish", "sleep_check",
            "sleeping", "tick_lock"} =>
        LET B == IF cfg.epoch_base_time = None
                 THEN start_time ELSE cfg.epoch_base_time
            I == cfg.epoch_seconds * TicksPerSec
            el == (start_time - B) \div I
            n == hist.ticks
        IN  /\ epoch = cfg.first_epoch + ((el + n) % RangeLen)
            /\ server.key = ((el % RangeLen) + n) \div RangeLen
            /\ server.active = epoch .. cfg.last_epoch

\* a start in the middle of the range, then a short first key, a whole
\* second key, and the third key in use
C19_Witness ==
    /\ pc = "sleeping"
    /\ hist.catchup_log /= <<>>
    /\ server.key = 2
    /\ hist.ticks > RangeLen
    /\ hist.ticks < 2 * RangeLen
    /\ epoch = cfg.first_epoch

\* C20: a reader that finds next_epoch_time present finds the cell past the
\* startup catch-up: the scheduler has published, the tags below the
\* schedule-derived epoch are punctured under the first key, and before the
\* first tick current_epoch is the schedule-derived epoch with exactly the
\* tags from it to last_epoch active; an info response that carries a
\* next_epoch_time never reports the first key at an epoch below the
\* schedule-derived one.
C20_PublishedOnlyAfterCatchUp ==
    LET B == IF cfg.epoch_base_time = None
             THEN start_time ELSE cfg.epoch_base_time
        I == cfg.epoch_seconds * TicksPerSec
        cur == cfg.first_epoch + (((start_time - B) \div I) % RangeLen)
    IN  /\ (Observable /\ next_epoch_time /= NoString) =>
              /\ pc \notin {"start", "catchup_lock", "catchup",
                            "init_rotation"}
              /\ hist.pubs >= 1
              /\ server.key = 0 =>
                    /\ epoch >= cur
                    /\ \A t \in cfg.first_epoch .. cur - 1 :
                          t \notin server.active
              /\ hist.ticks = 0 =>
                    /\ epoch = cur
                    /\ server.active = cur .. cfg.last_epoch
        /\ (req.kind = "info" /\ resp.status = 200
               /\ resp.next_epoch_time /= NoString) =>
              /\ hist.pubs >= 1
              /\ resp.public_key = 0 => resp.current_epoch >= cur

\* before any tick, an info response carries the published time and the
\* schedule-derived epoch, above first_epoch, that the catch-up has set
C20_Witness ==
    /\ req.kind = "info"
    /\ resp.status = 200
    /\ resp.next_epoch_time /= NoString
    /\ resp.next_epoch_time = hist.first_pub
    /\ resp.current_epoch > cfg.first_epoch
    /\ resp.current_epoch = current_epoch
    /\ hist.catchup_log /= <<>>
    /\ hist.ticks = 0
    /\ pc = "sleeping"

====
